---- MODULE Spec2Model ----
(***************************************************************************)
(* RenderSelectionGroupEditable: a group of committed selection boxes with *)
(* at most one editable "active" box.                                      *)
(*                                                                         *)
(* Python's None is the empty tuple and a present value x is <<x>>.        *)
(* Indices into _boxes are 0-based as in the source; the i-th committed    *)
(* box is boxes[i + 1].                                                    *)
(***************************************************************************)
EXTENDS Integers, Sequences, FiniteSets, TLC

VARIABLES
    boxes,                  \* self._boxes: the committed boxes
    active_box,             \* self._active_box
    active_box_index,       \* self._active_box_index
    last_active_box_index,  \* self._last_active_box_index
    hover_box_index,        \* self._hover_box_index
    cursor_position,        \* self._cursor_position
    editable,               \* self._editable
    op,                     \* the last call: its name and arguments
    out,                    \* what the last call did that a caller observes
    prev,                   \* the fields as the last call found them
    before,                 \* what the call before the last one did
    since_empty_toggle      \* calls made since box_select_toggle on an empty editor

vars == <<boxes, active_box, active_box_index, last_active_box_index,
          hover_box_index, cursor_position, editable, op, out, prev,
          before, since_empty_toggle>>

-----------------------------------------------------------------------------
\* The committed sequence grows to at most MaxBoxes boxes.
MaxBoxes == 2

\* The sentinel closest_intersection starts from.
multiplier == 999999999

None == <<>>
Some(x) == <<x>>
Val(o) == o[1]

\* Block coordinates.  Corners and the cursor are only copied and compared,
\* so two positions tell every copy apart.
Origin == <<0, 0, 0>>
Positions == {Origin, <<1, 0, 0>>}

\* What intersects_vector may report: None, a near distance, or a distance
\* that reaches the sentinel.
Distances == {1, 2, multiplier}
OptDistances == {None} \cup {Some(d) : d \in Distances}

-----------------------------------------------------------------------------
\* The collaborators RenderSelection and RenderSelectionEditable.

NewRenderSelection == [point1 |-> Origin, point2 |-> Origin]

NewEditableRenderSelection ==
    [point1 |-> Origin, point2 |-> Origin, being_resized |-> TRUE]

is_dynamic(b) == b.being_resized
is_static(b) == ~b.being_resized

lock(b) == [b EXCEPT !.being_resized = FALSE]

unlock(b, position) == [b EXCEPT !.being_resized = TRUE, !.point2 = position]

set_active_point(b, position) ==
    IF b.being_resized THEN [b EXCEPT !.point2 = position] ELSE b

-----------------------------------------------------------------------------
\* The editor's fields as one record, and the result of a call: the fields it
\* leaves, whether it raised IndexError, and the value it returned.

State ==
    [boxes |-> boxes, active_box |-> active_box,
     active_box_index |-> active_box_index,
     last_active_box_index |-> last_active_box_index,
     hover_box_index |-> hover_box_index,
     cursor_position |-> cursor_position,
     editable |-> editable]

Return(s, v) == [st |-> s, raised |-> FALSE, ret |-> v]
Raise(s) == [st |-> s, raised |-> TRUE, ret |-> None]

InRange(i, bs) == i >= 0 /\ i < Len(bs)

Pop(bs, i) == [k \in 1..(Len(bs) - 1) |-> IF k <= i THEN bs[k] ELSE bs[k + 1]]

\* _create_active_box_from_cursor moving only the second corner to the cursor.
_create_active_box_from_cursor_point2_only(s) ==
    [s EXCEPT !.active_box = Some([NewEditableRenderSelection EXCEPT
                                      !.point2 = s.cursor_position]),
              !.last_active_box_index = s.active_box_index,
              !.active_box_index = None]

_create_active_box_from_cursor(s) ==
    [s EXCEPT !.active_box = Some([NewEditableRenderSelection EXCEPT
                                      !.point1 = s.cursor_position,
                                      !.point2 = s.cursor_position]),
              !.last_active_box_index = s.active_box_index,
              !.active_box_index = None]

_create_active_box(s) ==
    LET s1 == [s EXCEPT !.active_box = Some(NewEditableRenderSelection),
                        !.last_active_box_index = s.active_box_index]
    IN  IF s.active_box_index = None
        THEN Return([s1 EXCEPT !.active_box = Some([NewEditableRenderSelection EXCEPT
                                                       !.point1 = s.cursor_position,
                                                       !.point2 = s.cursor_position]),
                               !.active_box_index = None], None)
        ELSE IF ~InRange(Val(s.active_box_index), s.boxes)
        THEN Raise(s1)
        ELSE LET box == s.boxes[Val(s.active_box_index) + 1]
             IN  Return([s1 EXCEPT !.active_box =
                            Some(lock([NewEditableRenderSelection EXCEPT
                                          !.point1 = box.point1,
                                          !.point2 = box.point2]))], None)

\* The editable setter building no active box when editable is turned on.
editable_setter_discards_only(s, value) ==
    LET s1 == [s EXCEPT !.editable = value]
    IN  IF value
        THEN Return(s1, None)
        ELSE Return([s1 EXCEPT !.active_box = None], None)

editable_setter(s, value) ==
    LET s1 == [s EXCEPT !.editable = value]
    IN  IF value /\ s1.active_box_index # None
        THEN _create_active_box(s1)
        ELSE Return([s1 EXCEPT !.active_box = None], None)

deselect_all(s) ==
    [s EXCEPT !.boxes = <<>>, !.active_box = None,
              !.active_box_index = None, !.last_active_box_index = None]

\* deselect_active leaving last_active_box_index alone when the last
\* committed box goes.
deselect_active_keeps_last(s) ==
    IF s.active_box_index # None
    THEN IF ~InRange(Val(s.active_box_index), s.boxes)
         THEN Raise(s)
         ELSE LET i == Val(s.active_box_index)
                  s1 == [s EXCEPT !.boxes = Pop(s.boxes, i)]
              IN  IF s1.boxes # <<>>
                  THEN _create_active_box(
                           [s1 EXCEPT !.active_box_index =
                                          IF i >= 1 THEN Some(i - 1) ELSE Some(i)])
                  ELSE Return([s1 EXCEPT !.active_box = None,
                                         !.active_box_index = None], None)
    ELSE IF /\ s.active_box # None
            /\ is_dynamic(Val(s.active_box))
            /\ s.last_active_box_index # None
    THEN Return([s EXCEPT !.active_box_index = s.last_active_box_index], None)
    ELSE Return(s, None)

deselect_active(s) ==
    IF s.active_box_index # None
    THEN IF ~InRange(Val(s.active_box_index), s.boxes)
         THEN Raise(s)
         ELSE LET i == Val(s.active_box_index)
                  s1 == [s EXCEPT !.boxes = Pop(s.boxes, i)]
              IN  IF s1.boxes # <<>>
                  THEN _create_active_box(
                           [s1 EXCEPT !.active_box_index =
                                          IF i >= 1 THEN Some(i - 1) ELSE Some(i)])
                  ELSE Return([s1 EXCEPT !.active_box = None,
                                         !.active_box_index = None,
                                         !.last_active_box_index = None], None)
    ELSE IF /\ s.active_box # None
            /\ is_dynamic(Val(s.active_box))
            /\ s.last_active_box_index # None
    THEN Return([s EXCEPT !.active_box_index = s.last_active_box_index], None)
    ELSE Return(s, None)

update_cursor_position(s, position, box_index) ==
    LET s1 == [s EXCEPT !.cursor_position = position,
                        !.hover_box_index = box_index]
    IN  IF s1.active_box # None
        THEN [s1 EXCEPT !.active_box = Some(set_active_point(Val(s.active_box), position))]
        ELSE s1

\* _box_select_disable without the lock() of the active box.
_box_select_disable_unlocked(s) ==
    LET ab == Val(s.active_box)
    IN  IF s.active_box_index = None
        THEN Return([s EXCEPT !.active_box_index = Some(Len(s.boxes)),
                              !.boxes = Append(s.boxes,
                                  [NewRenderSelection EXCEPT !.point1 = ab.point1,
                                                             !.point2 = ab.point2])],
                    None)
        ELSE IF ~InRange(Val(s.active_box_index), s.boxes)
        THEN Raise(s)
        ELSE Return([s EXCEPT !.boxes[Val(s.active_box_index) + 1] =
                                  [@ EXCEPT !.point1 = ab.point1,
                                            !.point2 = ab.point2]], None)

\* _box_select_disable appending the active box whatever active_box_index is.
_box_select_disable_always_appends(s) ==
    LET s1 == [s EXCEPT !.active_box = Some(lock(Val(s.active_box)))]
        ab == Val(s1.active_box)
    IN  Return([s1 EXCEPT !.active_box_index = Some(Len(s.boxes)),
                          !.boxes = Append(s.boxes,
                              [NewRenderSelection EXCEPT !.point1 = ab.point1,
                                                         !.point2 = ab.point2])],
               None)

_box_select_disable(s) ==
    LET s1 == [s EXCEPT !.active_box = Some(lock(Val(s.active_box)))]
        ab == Val(s1.active_box)
    IN  IF s1.active_box_index = None
        THEN Return([s1 EXCEPT !.active_box_index = Some(Len(s.boxes)),
                               !.boxes = Append(s.boxes,
                                   [NewRenderSelection EXCEPT !.point1 = ab.point1,
                                                              !.point2 = ab.point2])],
                    None)
        ELSE IF ~InRange(Val(s1.active_box_index), s1.boxes)
        THEN Raise(s1)
        ELSE Return([s1 EXCEPT !.boxes[Val(s1.active_box_index) + 1] =
                                   [@ EXCEPT !.point1 = ab.point1,
                                             !.point2 = ab.point2]], None)

\* box_select_disable dropping a dynamic active box instead of committing it.
box_select_disable_discards(s) ==
    IF s.active_box # None /\ is_dynamic(Val(s.active_box))
    THEN Return([s EXCEPT !.active_box = None], None)
    ELSE Return(s, None)

box_select_disable(s) ==
    IF s.active_box # None /\ is_dynamic(Val(s.active_box))
    THEN _box_select_disable(s)
    ELSE Return(s, None)

\* box_select_toggle keeping the committed boxes whatever add_modifier is.
box_select_toggle_always_adds(s, add_modifier) ==
    IF s.active_box = None
    THEN Return(_create_active_box_from_cursor(s), None)
    ELSE IF is_static(Val(s.active_box))
    THEN IF s.hover_box_index = s.active_box_index
         THEN Return([s EXCEPT !.active_box =
                                   Some(unlock(Val(s.active_box), s.cursor_position)),
                               !.last_active_box_index = s.active_box_index],
                     Some(s.cursor_position))
         ELSE IF s.hover_box_index # None
         THEN _create_active_box([s EXCEPT !.active_box_index = s.hover_box_index])
         ELSE Return(_create_active_box_from_cursor(s), None)
    ELSE _box_select_disable(s)

box_select_toggle(s, add_modifier) ==
    IF s.active_box = None
    THEN Return(_create_active_box_from_cursor(s), None)
    ELSE IF is_static(Val(s.active_box))
    THEN IF s.hover_box_index = s.active_box_index
         THEN Return([s EXCEPT !.active_box =
                                   Some(unlock(Val(s.active_box), s.cursor_position)),
                               !.last_active_box_index = s.active_box_index],
                     Some(s.cursor_position))
         ELSE IF s.hover_box_index # None
         THEN _create_active_box([s EXCEPT !.active_box_index = s.hover_box_index])
         ELSE Return(_create_active_box_from_cursor(
                         IF ~add_modifier THEN deselect_all(s) ELSE s), None)
    ELSE _box_select_disable(s)

\* The draw calls draw makes, in order: committed box i is Some(i), the
\* active box is None.
RECURSIVE draw_boxes(_, _)
draw_boxes(s, index) ==
    IF index >= Len(s.boxes)
    THEN <<>>
    ELSE (IF ~s.editable \/ Some(index) # s.active_box_index
          THEN <<Some(index)>>
          ELSE <<>>) \o draw_boxes(s, index + 1)

\* draw drawing every committed box, the one at active_box_index too.
draw_every_box(s) ==
    [k \in 1..Len(s.boxes) |-> Some(k - 1)]
        \o (IF s.active_box # None THEN <<None>> ELSE <<>>)

draw(s) ==
    draw_boxes(s, 0) \o (IF s.active_box # None THEN <<None>> ELSE <<>>)

\* considered passing over the committed box of a static active box.
considered_unless_static(s, index) ==
    \/ ~s.editable
    \/ s.active_box = None
    \/ is_dynamic(Val(s.active_box))
    \/ Some(index) # s.active_box_index

\* Whether closest_intersection ray-casts against the committed box at index.
considered(s, index) ==
    \/ ~s.editable
    \/ s.active_box = None
    \/ is_static(Val(s.active_box))
    \/ Some(index) # s.active_box_index

\* Whether a reported distance replaces the best one so far.
closer(mult, best) == mult # None /\ Val(mult) < best

\* The committed boxes closest_intersection calls intersects_vector on.
ray_cast(s) == {index \in 0..(Len(s.boxes) - 1) : considered(s, index)}

\* mults[index + 1] is what box.intersects_vector(origin, vector) reports for
\* the committed box at index.
RECURSIVE closest_loop(_, _, _, _)
closest_loop(s, mults, index, acc) ==
    IF index >= Len(s.boxes)
    THEN acc
    ELSE LET mult == mults[index + 1]
             acc1 == IF considered(s, index) /\ closer(mult, acc.multiplier)
                     THEN [multiplier |-> Val(mult),
                           index_return |-> Some(index),
                           box_return |-> Some(s.boxes[index + 1])]
                     ELSE acc
         IN  closest_loop(s, mults, index + 1, acc1)

closest_intersection(s, mults) ==
    closest_loop(s, mults, 0,
                 [multiplier |-> multiplier, index_return |-> None,
                  box_return |-> None])

-----------------------------------------------------------------------------
\* The state machine: one action per public method that writes a field or
\* draws.  closest_intersection writes nothing and its result depends on the
\* ray as well as on the fields, so it stays an operator, applied to every
\* reachable state and every ray.

NoOut ==
    [raised |-> FALSE, ret |-> None, drawn |-> <<>>]

EmptyEditor(s) == s.boxes = <<>> /\ s.active_box = None

\* The active box of s is being resized, so box_select_toggle and
\* box_select_disable commit it.
Dynamic(s) == s.active_box # None /\ is_dynamic(Val(s.active_box))

\* The active box of s is static and hovered, so box_select_toggle unlocks it.
Unlocks(s) ==
    /\ s.active_box # None
    /\ is_static(Val(s.active_box))
    /\ s.hover_box_index = s.active_box_index

\* The active box of s is an uncommitted creation that deselect_active
\* abandons for the box at last_active_box_index.
Undoes(s) ==
    /\ s.active_box_index = None
    /\ Dynamic(s)
    /\ s.last_active_box_index # None

\* What the last call did:
\*   "create"     box_select_toggle(False) on an empty editor
\*   "create_add" box_select_toggle(True) on an empty editor
\*   "unlock"     box_select_toggle unlocked the static active box
\*   "commit"     box_select_toggle or box_select_disable committed the active box
\*   "resize"     update_cursor_position, with only such calls since an "unlock"
\*   "other"      anything else
Did ==
    IF op.name = "toggle_box_select" /\ EmptyEditor(prev)
    THEN (IF op.args = <<FALSE>> THEN "create" ELSE "create_add")
    ELSE IF op.name = "toggle_box_select" /\ Unlocks(prev)
    THEN "unlock"
    ELSE IF /\ op.name \in {"toggle_box_select", "disable_box_select"}
            /\ Dynamic(prev)
            /\ ~out.raised
    THEN "commit"
    ELSE IF op.name = "update_cursor" /\ before \in {"unlock", "resize"}
    THEN "resize"
    ELSE "other"

\* since_empty_toggle is
\*   "clean"    box_select_toggle found the editor empty and no call since was
\*              box_select_toggle or box_select_disable
\*   "disabled" as "clean", but box_select_disable was called since
\*   "no"       otherwise

\* A call o that ends as r, drew `drawn`, and leaves since_empty_toggle as
\* track.
Do(o, r, drawn, track) ==
    /\ boxes' = r.st.boxes
    /\ active_box' = r.st.active_box
    /\ active_box_index' = r.st.active_box_index
    /\ last_active_box_index' = r.st.last_active_box_index
    /\ hover_box_index' = r.st.hover_box_index
    /\ cursor_position' = r.st.cursor_position
    /\ editable' = r.st.editable
    /\ op' = o
    /\ out' = [raised |-> r.raised, ret |-> r.ret, drawn |-> drawn]
    /\ prev' = State
    /\ before' = Did
    /\ since_empty_toggle' = track

Init ==
    /\ boxes = <<>>
    /\ active_box = None
    /\ active_box_index = None
    /\ last_active_box_index = None
    /\ hover_box_index = None
    /\ cursor_position = Origin
    /\ editable = TRUE
    /\ op = [name |-> "init", args |-> <<>>]
    /\ out = NoOut
    /\ prev = [boxes |-> <<>>, active_box |-> None,
               active_box_index |-> None,
               last_active_box_index |-> None,
               hover_box_index |-> None,
               cursor_position |-> Origin, editable |-> TRUE]
    /\ before = "other"
    /\ since_empty_toggle = "no"

SetEditable ==
    \E value \in BOOLEAN :
    \E r \in {editable_setter(State, value)} :
        Do([name |-> "set_editable", args |-> <<value>>], r, <<>>,
           since_empty_toggle)

DeselectAll ==
    \E r \in {Return(deselect_all(State), None)} :
        Do([name |-> "deselect_all", args |-> <<>>], r, <<>>,
           since_empty_toggle)

DeselectActive ==
    \E r \in {deselect_active(State)} :
        Do([name |-> "deselect_active", args |-> <<>>], r, <<>>,
           since_empty_toggle)

\* The caller passes the index closest_intersection gave it: None or an index
\* of a committed box.
UpdateCursor ==
    \E position \in Positions :
    \E box_index \in {None} \cup {Some(i) : i \in 0..(Len(boxes) - 1)} :
    \E r \in {Return(update_cursor_position(State, position, box_index), None)} :
        Do([name |-> "update_cursor", args |-> <<position, box_index>>], r, <<>>,
           since_empty_toggle)

\* box_select_disable, while it leaves at most cap committed boxes.
BoxSelectDisableUpTo(cap) ==
    \E r \in {box_select_disable(State)} :
        /\ Len(r.st.boxes) <= cap
        /\ Do([name |-> "disable_box_select", args |-> <<>>], r, <<>>,
              IF since_empty_toggle = "no" THEN "no" ELSE "disabled")

\* box_select_toggle, while it leaves at most cap committed boxes.
BoxSelectToggleUpTo(cap) ==
    \E add_modifier \in BOOLEAN :
    \E r \in {box_select_toggle(State, add_modifier)} :
        /\ Len(r.st.boxes) <= cap
        /\ Do([name |-> "toggle_box_select", args |-> <<add_modifier>>], r, <<>>,
              IF EmptyEditor(State) THEN "clean" ELSE "no")

BoxSelectDisable == BoxSelectDisableUpTo(MaxBoxes)

BoxSelectToggle == BoxSelectToggleUpTo(MaxBoxes)

Draw ==
    \E r \in {Return(State, None)} :
        Do([name |-> "render", args |-> <<>>], r, draw(State),
           since_empty_toggle)

Next ==
    \/ SetEditable
    \/ DeselectAll
    \/ DeselectActive
    \/ UpdateCursor
    \/ BoxSelectDisable
    \/ BoxSelectToggle
    \/ Draw

Spec == Init /\ [][Next]_vars

\* The same editor with room for one more committed box: three boxes at
\* least are needed for an index to go stale while two boxes remain.
BoxSelectDisableWide == BoxSelectDisableUpTo(MaxBoxes + 1)

BoxSelectToggleWide == BoxSelectToggleUpTo(MaxBoxes + 1)

NextWide ==
    \/ SetEditable
    \/ DeselectAll
    \/ DeselectActive
    \/ UpdateCursor
    \/ BoxSelectDisableWide
    \/ BoxSelectToggleWide
    \/ Draw

SpecWide == Init /\ [][NextWide]_vars

-----------------------------------------------------------------------------
\* Properties.

IndexOk(index, bs) == index = None \/ Val(index) < Len(bs)

DynamicAt(position) ==
    Some([point1 |-> position, point2 |-> position, being_resized |-> TRUE])

StaticAt(position) ==
    Some([point1 |-> position, point2 |-> position, being_resized |-> FALSE])

\* C1: active_box_index and last_active_box_index are each None or smaller
\* than the number of committed boxes, and no call indexes the committed
\* sequence out of range (IndexError).
C1_IndicesInRange ==
    /\ IndexOk(active_box_index, boxes)
    /\ IndexOk(last_active_box_index, boxes)
    /\ ~out.raised

\* C2: while editable is false there is no active box.
C2_NoActiveBoxUnlessEditable ==
    ~editable => active_box = None

\* C3 as claimed: from an empty editor with the cursor at A and no hover
\* index, box_select_toggle(False) creates a dynamic active box at A and
\* commits nothing; a second box_select_toggle(False) right after it commits
\* one box with corners (A, A) and leaves a new dynamic active box.
C3_SecondToggleCreatesDynamic ==
    /\ (Did = "create" /\ prev.hover_box_index = None)
           => /\ boxes = <<>>
              /\ active_box = DynamicAt(prev.cursor_position)
    /\ (/\ before = "create"
        /\ op = [name |-> "toggle_box_select", args |-> <<FALSE>>]
        /\ prev.hover_box_index = None)
           => /\ Len(boxes) = 1
              /\ boxes[1] = [point1 |-> prev.cursor_position,
                             point2 |-> prev.cursor_position]
              /\ Dynamic(State)

\* C3 amended: as C3, but the second box_select_toggle leaves the committed
\* box as the active box, static, with active_box_index 0; it creates no new
\* dynamic box.
C3_SecondToggleCommits ==
    /\ (Did = "create" /\ prev.hover_box_index = None)
           => /\ boxes = <<>>
              /\ active_box = DynamicAt(prev.cursor_position)
    /\ (/\ before = "create"
        /\ op = [name |-> "toggle_box_select", args |-> <<FALSE>>]
        /\ prev.hover_box_index = None)
           => /\ Len(boxes) = 1
              /\ boxes[1] = [point1 |-> prev.cursor_position,
                             point2 |-> prev.cursor_position]
              /\ active_box = StaticAt(prev.cursor_position)
              /\ active_box_index = Some(0)

C3_Witness ==
    /\ before = "create"
    /\ op = [name |-> "toggle_box_select", args |-> <<FALSE>>]
    /\ prev.hover_box_index = None
    /\ prev.cursor_position # Origin
    /\ Len(boxes) = 1

\* C4 as claimed: box_select_toggle on an empty editor, with either
\* add_modifier, leaves a dynamic active box with both corners at the cursor
\* and active_box_index None; the committed sequence then stays empty under
\* every call until box_select_toggle is called again.
C4_EmptyUntilToggle ==
    /\ Did \in {"create", "create_add"}
           => /\ active_box = DynamicAt(prev.cursor_position)
              /\ active_box_index = None
              /\ boxes = <<>>
    /\ since_empty_toggle \in {"clean", "disabled"} => boxes = <<>>

\* C4 amended: as C4, but the committed sequence stays empty only until
\* box_select_toggle or box_select_disable is called: box_select_disable
\* commits the dynamic box too.
C4_EmptyUntilToggleOrDisable ==
    /\ Did \in {"create", "create_add"}
           => /\ active_box = DynamicAt(prev.cursor_position)
              /\ active_box_index = None
              /\ boxes = <<>>
    /\ since_empty_toggle = "clean" => boxes = <<>>

C4_Witness ==
    /\ since_empty_toggle = "clean"
    /\ op.name = "update_cursor"
    /\ Dynamic(State)
    /\ Val(active_box).point1 # Val(active_box).point2
    /\ boxes = <<>>

\* Every ray: what intersects_vector reports for each committed box.
Rays(s) == [1..Len(s.boxes) -> OptDistances]

Indices(s) == 0..(Len(s.boxes) - 1)

\* C5 as claimed: closest_intersection ray-casts against every committed box
\* except the one at active_box_index while editable is true and the active
\* box exists and is static.
C5_SkipsStaticActive ==
    ray_cast(State) =
            {i \in Indices(State) :
                ~(/\ editable
                  /\ active_box # None
                  /\ is_static(Val(active_box))
                  /\ Some(i) = active_box_index)}

\* C5 amended: closest_intersection ray-casts against every committed box
\* except the one at active_box_index while editable is true and the active
\* box exists and is dynamic; the box at active_box_index is a candidate
\* while the active box is static, and every box is while editable is false.
C5_SkipsDynamicActive ==
    ray_cast(State) =
            {i \in Indices(State) :
                ~(/\ editable
                  /\ active_box # None
                  /\ is_dynamic(Val(active_box))
                  /\ Some(i) = active_box_index)}

C5_Witness ==
    /\ editable
    /\ Dynamic(State)
    /\ active_box_index # None
    /\ InRange(Val(active_box_index), boxes)
    /\ Len(boxes) >= 2

\* C6: for every ray, closest_intersection returns the lowest index among
\* the ray-cast boxes that report the least distance, with its box, and
\* (None, None) exactly when no ray-cast box reports a distance.
C6_ClosestIsMinimum ==
    \A mults \in Rays(State) :
        LET r == closest_intersection(State, mults)
            hits == {i \in ray_cast(State) : mults[i + 1] # None}
        IN  IF hits = {}
            THEN r.index_return = None /\ r.box_return = None
            ELSE LET best == CHOOSE i \in hits : \A j \in hits :
                                 \/ Val(mults[i + 1]) < Val(mults[j + 1])
                                 \/ Val(mults[i + 1]) = Val(mults[j + 1]) /\ i <= j
                 IN  /\ r.index_return = Some(best)
                     /\ r.box_return = Some(boxes[best + 1])

\* C7: whenever active_box_index is set, editable = False followed by
\* editable = True leaves the committed sequence and active_box_index as
\* they were and the active box a static copy of the committed box at
\* active_box_index.
C7_EditableRoundTrip ==
    active_box_index # None =>
        LET off == editable_setter(State, FALSE)
            on == editable_setter(off.st, TRUE)
        IN  /\ ~off.raised
            /\ ~on.raised
            /\ on.st.boxes = boxes
            /\ on.st.active_box_index = active_box_index
            /\ on.st.active_box =
                   Some([point1 |-> boxes[Val(active_box_index) + 1].point1,
                         point2 |-> boxes[Val(active_box_index) + 1].point2,
                         being_resized |-> FALSE])

\* C8: deselect_active right after a commit that left exactly one committed
\* box, at active_box_index 0, leaves the committed sequence empty, no
\* active box, and active_box_index and last_active_box_index None.
C8_DeselectFreshBox ==
    (/\ before = "commit"
     /\ op.name = "deselect_active"
     /\ Len(prev.boxes) = 1
     /\ prev.active_box_index = Some(0))
        => /\ boxes = <<>>
           /\ active_box = None
           /\ active_box_index = None
           /\ last_active_box_index = None

C8_Witness ==
    /\ before = "commit"
    /\ op.name = "deselect_active"
    /\ Len(prev.boxes) = 1
    /\ prev.active_box_index = Some(0)
    /\ prev.boxes[1].point2 # Origin
    /\ boxes = <<>>

Draws(x) == Cardinality({k \in 1..Len(out.drawn) : out.drawn[k] = x})

\* C9: while editable is true, draw draws each committed box whose index is
\* not active_box_index once, the committed box at active_box_index not at
\* all, the active box once if there is one and not otherwise, and writes no
\* field.
C9_DrawsOnce ==
    (op.name = "render" /\ editable)
        => /\ \A i \in Indices(State) :
                  Draws(Some(i)) = IF Some(i) = active_box_index THEN 0 ELSE 1
           /\ Draws(None) = IF active_box # None THEN 1 ELSE 0
           /\ Len(out.drawn) = Draws(None) + Cardinality({i \in Indices(State) : Draws(Some(i)) = 1})
           /\ State = prev

C9_Witness ==
    /\ op.name = "render"
    /\ editable
    /\ active_box # None
    /\ Len(boxes) >= 2
    /\ active_box_index = Some(1)
    /\ out.drawn = <<Some(0), None>>

\* C10: box_select_toggle returns the cursor position when it finds a static
\* active box with hover_box_index equal to active_box_index, and returns
\* None from every other state.
C10_ReturnsCursorOnlyOnUnlock ==
    op.name = "toggle_box_select"
        => /\ ~out.raised
           /\ out.ret = IF Unlocks(prev) THEN Some(prev.cursor_position) ELSE None

\* C11: deselect_active called while there is no active box changes no
\* field: committed boxes, active box, both indices, hover index, cursor
\* position and editable flag stay as they were.
C11_DeselectActiveNoOpWithoutActiveBox ==
    (op.name = "deselect_active" /\ prev.active_box = None)
        => State = prev /\ ~out.raised

\* C12: a call that finds an active box and leaves none is deselect_all,
\* editable = False, or a deselect_active that empties the committed
\* sequence; every other call, editable = True with active_box_index None
\* among them, leaves a present active box present.
C12_ActiveBoxDiscardedOnlyBy ==
    (prev.active_box # None /\ active_box = None)
        => \/ op.name = "deselect_all"
           \/ op = [name |-> "set_editable", args |-> <<FALSE>>]
           \/ op.name = "deselect_active" /\ boxes = <<>>

\* The corners of a box, committed or active.
Corners(b) == <<b.point1, b.point2>>

\* Every committed box of s other than the one at index i is in bs, at the
\* same index and with the same corners.
OthersKept(s, bs, i) ==
    \A k \in Indices(s) :
        k # i => k < Len(bs) /\ Corners(bs[k + 1]) = Corners(s.boxes[k + 1])

\* C13: box_select_toggle finding a dynamic active box commits it: the
\* active box ends static; with active_box_index None the committed sequence
\* grows by one and active_box_index becomes the old length, otherwise
\* length and active_box_index stay; the committed box at active_box_index
\* has the active box's corners and every other committed box keeps its
\* index and corners.
C13_ToggleCommitsDynamic ==
    (op.name = "toggle_box_select" /\ Dynamic(prev))
        => /\ ~out.raised
           /\ active_box # None
           /\ is_static(Val(active_box))
           /\ IF prev.active_box_index = None
              THEN /\ Len(boxes) = Len(prev.boxes) + 1
                   /\ active_box_index = Some(Len(prev.boxes))
              ELSE /\ Len(boxes) = Len(prev.boxes)
                   /\ active_box_index = prev.active_box_index
           /\ InRange(Val(active_box_index), boxes)
           /\ Corners(boxes[Val(active_box_index) + 1]) = Corners(Val(prev.active_box))
           /\ Corners(Val(active_box)) = Corners(Val(prev.active_box))
           /\ OthersKept(prev, boxes, Val(active_box_index))

\* The active box of s is static and nothing is hovered.
StaticUnhovered(s) ==
    /\ s.active_box # None
    /\ is_static(Val(s.active_box))
    /\ s.hover_box_index = None

\* C14: box_select_toggle finding a static active box and hover_box_index
\* None leaves a dynamic active box with both corners at the cursor and
\* active_box_index None; with add_modifier False the committed sequence is
\* empty and last_active_box_index None, with add_modifier True the
\* committed sequence is unchanged and last_active_box_index is the previous
\* active_box_index.
C14_ToggleStartsNewBox ==
    (op.name = "toggle_box_select" /\ StaticUnhovered(prev))
        => /\ ~out.raised
           /\ active_box = DynamicAt(prev.cursor_position)
           /\ active_box_index = None
           /\ IF op.args = <<FALSE>>
              THEN /\ boxes = <<>>
                   /\ last_active_box_index = None
              ELSE /\ boxes = prev.boxes
                   /\ last_active_box_index = prev.active_box_index

C14_Witness ==
    /\ op = [name |-> "toggle_box_select", args |-> <<FALSE>>]
    /\ StaticUnhovered(prev)
    /\ Len(prev.boxes) = 2
    /\ prev.cursor_position # Origin
    /\ boxes = <<>>
    /\ Dynamic(State)

\* C15: resizing a committed box.  box_select_toggle on a static active box
\* with hover_box_index equal to active_box_index unlocks it: the active box
\* is dynamic, active_box_index is unchanged and last_active_box_index is set
\* to it; update_cursor_position calls after it commit nothing; and the
\* box_select_toggle or box_select_disable that follows leaves the committed
\* sequence as long as it was and changes the corners of no committed box
\* other than the one at active_box_index.
C15_ResizeKeepsLength ==
    /\ Did = "unlock"
           => /\ Dynamic(State)
              /\ active_box_index # None
              /\ active_box_index = prev.active_box_index
              /\ last_active_box_index = prev.active_box_index
              /\ boxes = prev.boxes
    /\ Did = "resize"
           => /\ Dynamic(State)
              /\ active_box_index = prev.active_box_index
              /\ last_active_box_index = prev.last_active_box_index
              /\ boxes = prev.boxes
    /\ (/\ before \in {"unlock", "resize"}
        /\ op.name \in {"toggle_box_select", "disable_box_select"})
           => /\ Len(boxes) = Len(prev.boxes)
              /\ active_box_index = prev.active_box_index
              /\ OthersKept(prev, boxes, Val(prev.active_box_index))

C15_Witness ==
    /\ before = "resize"
    /\ op.name = "toggle_box_select"
    /\ ~out.raised
    /\ Len(boxes) = 2
    /\ active_box_index = Some(0)
    /\ Corners(boxes[1]) # Corners(prev.boxes[1])
    /\ boxes[2] = prev.boxes[2]

\* C16: box_select_disable finding a dynamic active box ends exactly as
\* box_select_toggle called in that state would, for either add_modifier;
\* finding no active box or a static one it changes no field; so a second
\* box_select_disable right after it changes nothing.
C16_DisableIsCommit ==
    op.name = "disable_box_select"
        => /\ IF Dynamic(prev)
              THEN \A add_modifier \in BOOLEAN :
                       LET r == box_select_toggle(prev, add_modifier)
                       IN  /\ r.st = State
                           /\ r.raised = out.raised
                           /\ r.ret = out.ret
              ELSE State = prev /\ ~out.raised
           /\ box_select_disable(State) = Return(State, None)

C16_Witness ==
    /\ op.name = "disable_box_select"
    /\ Dynamic(prev)
    /\ prev.active_box_index = None
    /\ Len(boxes) = 2
    /\ boxes[2].point1 # boxes[2].point2
    /\ active_box_index = Some(1)

\* C17: deselect_active with active_box_index i and at least two committed
\* boxes removes the box at i, the others keeping order and corners; sets
\* active_box_index to i - 1 when i >= 1 and to 0 when i = 0, and
\* last_active_box_index to the same; and leaves as active box a static
\* copy of the committed box now at active_box_index.
C17_DeselectActiveRemovesBox ==
    (/\ op.name = "deselect_active"
     /\ prev.active_box_index # None
     /\ Len(prev.boxes) >= 2)
        => LET i == Val(prev.active_box_index)
               j == IF i >= 1 THEN i - 1 ELSE 0
           IN  /\ ~out.raised
               /\ InRange(i, prev.boxes)
               /\ boxes = Pop(prev.boxes, i)
               /\ active_box_index = Some(j)
               /\ last_active_box_index = Some(j)
               /\ active_box = Some([point1 |-> boxes[j + 1].point1,
                                     point2 |-> boxes[j + 1].point2,
                                     being_resized |-> FALSE])

\* What a commit called in s leaves: box_select_disable, or box_select_toggle
\* with either add_modifier.
Commits(s) ==
    {box_select_disable(s)} \cup {box_select_toggle(s, add_modifier) : add_modifier \in BOOLEAN}

\* C18: deselect_active finding active_box_index None, a dynamic active box
\* and last_active_box_index set leaves the committed sequence untouched and
\* sets active_box_index to last_active_box_index, and a commit right after
\* it leaves every committed box with the corners it had.
C18_UndoRestoresCommittedBox ==
    (op.name = "deselect_active" /\ Undoes(prev))
        => /\ ~out.raised
           /\ boxes = prev.boxes
           /\ active_box_index = prev.last_active_box_index
           /\ \A r \in Commits(State) :
                  /\ Len(r.st.boxes) = Len(boxes)
                  /\ \A k \in Indices(State) :
                         Corners(r.st.boxes[k + 1]) = Corners(boxes[k + 1])

\* C19: a static active box mirrors a committed box: active_box_index is set
\* and the active box has the corners of the committed box at
\* active_box_index; so box_select_toggle never unlocks with hover_box_index
\* and active_box_index both None.
C19_StaticMirrorsCommitted ==
    /\ (active_box # None /\ is_static(Val(active_box)))
           => /\ active_box_index # None
              /\ InRange(Val(active_box_index), boxes)
              /\ Corners(Val(active_box)) = Corners(boxes[Val(active_box_index) + 1])
    /\ ~(/\ op.name = "toggle_box_select"
         /\ Unlocks(prev)
         /\ prev.hover_box_index = None
         /\ prev.active_box_index = None)

\* C20: while editable is true and active_box_index is set there is an
\* active box; so whenever draw passes over a committed box it draws the
\* active box.
C20_ActiveBoxWhileIndexSet ==
    /\ (editable /\ active_box_index # None) => active_box # None
    /\ (/\ op.name = "render"
        /\ \E i \in Indices(State) : Draws(Some(i)) = 0)
           => Draws(None) = 1

C20_Witness ==
    /\ op = [name |-> "set_editable", args |-> <<TRUE>>]
    /\ ~prev.editable
    /\ prev.active_box = None
    /\ prev.active_box_index = Some(1)
    /\ Len(boxes) = 2
    /\ active_box = Some([point1 |-> boxes[2].point1,
                          point2 |-> boxes[2].point2,
                          being_resized |-> FALSE])

====
